---- MODULE Spec2Model ----
(***************************************************************************)
(* Bootstrap controller of the TAK Manager launcher (web/src/App.tsx).     *)
(*                                                                         *)
(* App is a React function component.  Every render creates new           *)
(* checkForUpdates / checkDocker functions that close over the state       *)
(* values of that render; setTimeout(checkDocker, ...) inside such a       *)
(* function re-invokes the SAME function, hence with the same captured     *)
(* values.  An asynchronous invocation is modelled as a task holding its   *)
(* position (the await it is suspended at, or a pending timer) together    *)
(* with the captured values it reads.  A state update, the render that     *)
(* follows it and the effects of that render are one step.                 *)
(***************************************************************************)
EXTENDS FiniteSets, Integers, Sequences, TLC

\* Program constants (App.tsx).
MAX_RETRIES == 3
MAX_DOCKER_CHECK_ATTEMPTS == 10

\* Bounds of the model.
MaxTasks == 2          \* asynchronous invocations and timers pending at once
MaxAttempts == 11      \* cap on the stored dockerCheckAttempts
MaxUpdateRetries == 1  \* cap on the stored updateCheckRetries (see UpdateCap)
MaxChecks == 2         \* availability calls of the form pending at once

VARIABLES
    bridge,             \* window.pywebview.api exists
    app,                \* the useState values of App
    tasks,              \* sequence of suspended invocations / pending timers
    loadingCheckAgain,  \* useState of the mounted DockerInstallPrompt
    store,              \* what the Configuration Store holds
    navigated,          \* the URL given to window.pywebview.api.navigate, or Null
    updateCalls,        \* history: number of api.checkForUpdate() calls
    form,               \* the mounted ConfigScreen: field values, state, calls
    cleanup             \* App mounted or not, and the api.stopContainer() of its
                        \* cleanup

vars ==
    <<bridge, app, tasks, loadingCheckAgain, store, navigated, updateCalls, form,
      cleanup>>

Null == "null"

\* Error texts.
DockerNotRunningMsg ==
    "Docker is not running after multiple attempts. Please ensure Docker Desktop is started and try again."
StartFallbackMsg == "Unknown error occurred while starting container"
SaveFallbackMsg == "Unknown error occurred while saving configuration"
OpenUrlFailedMsg == "Failed to open Docker installation page"
ReturnedErrorMsg == "error returned by the collaborator"
ThrownMsg == "message of a thrown Error"

\* Configuration Store contents: which of the two fields are set; in
\* "bothBadPort" both are set but the port is not a valid port number (the
\* store is a file kept by the host, and the form lets "8989a" through).
StoreValues == {"none", "dirOnly", "portOnly", "both", "bothBadPort"}

\* --------------------------------------------------------------------------
\* Tasks
\* --------------------------------------------------------------------------
\* The test of line 93 on the state values a.
UpdateRetryAllowedIn(a) == a.updateCheckRetries < MAX_RETRIES - 1

\* The test of line 165 on the state values a.
DockerRetryAllowedIn(a) == a.dockerCheckAttempts < MAX_DOCKER_CHECK_ATTEMPTS

\* What an invocation reads of the render that created its function.  The
\* captured counters are read only in the tests of lines 93 and 165, whose
\* values are therefore fixed when the function is created; a task carries
\* those values.
NoClosure ==
    [cApiReady |-> FALSE, cCheckComplete |-> FALSE,
     cDockerRetry |-> FALSE, cUpdateRetry |-> FALSE]

\* The values a checkDocker created by a render of state a reads.
DockerClosure(a) ==
    [cApiReady |-> a.isApiReady,
     cCheckComplete |-> a.updateInfo.checkComplete,
     cDockerRetry |-> DockerRetryAllowedIn(a),
     cUpdateRetry |-> FALSE]

\* The values a checkForUpdates created by a render of state a reads.
UpdateClosure(a) ==
    [NoClosure EXCEPT !.cUpdateRetry = UpdateRetryAllowedIn(a)]

\* awaitedBy: "checkAgain" while the handleCheckAgain of the mounted
\* DockerInstallPrompt awaits the invocation, "none" otherwise.
Task(fn, pc, awaitedBy, c) ==
    [fn |-> fn, pc |-> pc, awaitedBy |-> awaitedBy,
     cApiReady |-> c.cApiReady, cCheckComplete |-> c.cCheckComplete,
     cDockerRetry |-> c.cDockerRetry, cUpdateRetry |-> c.cUpdateRetry]

ClosureOf(t) ==
    [cApiReady |-> t.cApiReady, cCheckComplete |-> t.cCheckComplete,
     cDockerRetry |-> t.cDockerRetry, cUpdateRetry |-> t.cUpdateRetry]

Remove(ts, i) == SubSeq(ts, 1, i - 1) \o SubSeq(ts, i + 1, Len(ts))
Replace(ts, i, t) == [ts EXCEPT ![i] = t]

\* The tasks are kept in a canonical order: they form a multiset.
FnIdx(f) ==
    CASE f = "checkForUpdates" -> 1 [] f = "checkDocker" -> 2
      [] f = "handleInstallDocker" -> 3 [] f = "handleUpdate" -> 4
      [] f = "onSubmit" -> 5 [] OTHER -> 6

PcIdx(p) ==
    CASE p = "probe" -> 1 [] p = "update" -> 2 [] p = "reprobe" -> 3
      [] p = "timer" -> 4 [] p = "installed" -> 5 [] p = "running" -> 6
      [] p = "getConfig" -> 7 [] p = "start" -> 8 [] OTHER -> 9

Bit(b) == IF b THEN 1 ELSE 0

Rank(t) ==
    (((FnIdx(t.fn) * 10 + PcIdx(t.pc)) * 2 + Bit(t.awaitedBy = "checkAgain")) * 2
        + Bit(t.cDockerRetry)) * 2 + Bit(t.cUpdateRetry)

RECURSIVE Ins(_, _)
Ins(ts, t) ==
    IF ts = <<>> THEN <<t>>
    ELSE IF Rank(t) <= Rank(Head(ts)) THEN <<t>> \o ts
    ELSE <<Head(ts)>> \o Ins(Tail(ts), t)

RECURSIVE Norm(_)
Norm(ts) == IF ts = <<>> THEN <<>> ELSE Ins(Norm(Tail(ts)), Head(ts))

\* --------------------------------------------------------------------------
\* Render
\* --------------------------------------------------------------------------
\* if (error): null and the empty string are falsy.
Truthy(e) == e # Null /\ e # ""

Screen(a) ==
    IF ~a.updateInfo.checkComplete THEN "LoadingState"
    ELSE IF Truthy(a.error) THEN "ErrorState"
    ELSE IF a.updateInfo.hasUpdate THEN "UpdatePrompt"
    ELSE IF a.isDockerInstalled = Null THEN "LoadingState"
    ELSE IF a.isDockerInstalled = "false" THEN "DockerInstallPrompt"
    ELSE IF a.isDockerRunning = Null THEN "LoadingState"
    ELSE IF a.isDockerRunning = "false" THEN "LoadingState"
    ELSE IF a.isInitialLoad THEN "ConfigScreen"
    ELSE "LoadingState"

\* Variant: checkDocker without the setError(null) of its entry.
CheckDockerEnter_keepsError(a, ts, awaitedBy, c) ==
    IF ~c.cApiReady \/ ~c.cCheckComplete
    THEN [app |-> a, tasks |-> ts, entered |-> FALSE]
    ELSE [app |-> a,
          tasks |-> Append(ts, Task("checkDocker", "installed", awaitedBy, c)),
          entered |-> TRUE]

\* checkDocker up to its first await, called on state a with closure c.
CheckDockerEnter(a, ts, awaitedBy, c) ==
    IF ~c.cApiReady \/ ~c.cCheckComplete
    THEN [app |-> a, tasks |-> ts, entered |-> FALSE]
    ELSE [app |-> [a EXCEPT !.error = Null],
          tasks |-> Append(ts, Task("checkDocker", "installed", awaitedBy, c)),
          entered |-> TRUE]

\* Variant: the first effect without its dependency list; it runs after
\* every render.
UpdateEffect_everyRender(old, new, ts) ==
    IF new.isApiReady
    THEN [app |-> [new EXCEPT !.updateCheckRetries = 0],
          tasks |-> Append(ts, Task("checkForUpdates", "probe", "none",
                                    UpdateClosure(new)))]
    ELSE [app |-> new, tasks |-> ts]

\* First effect, dependencies [isApiReady].
UpdateEffect(old, new, ts) ==
    IF old.isApiReady # new.isApiReady /\ new.isApiReady
    THEN [app |-> [new EXCEPT !.updateCheckRetries = 0],
          tasks |-> Append(ts, Task("checkForUpdates", "probe", "none",
                                    UpdateClosure(new)))]
    ELSE [app |-> new, tasks |-> ts]

DockerEffectDeps(a) ==
    <<a.isApiReady, a.updateInfo.checkComplete, a.updateInfo.hasUpdate>>

\* Variant: the second effect without its test of hasUpdate.
DockerEffect_ignoresUpdate(old, new, cur, ts) ==
    IF /\ DockerEffectDeps(old) # DockerEffectDeps(new)
       /\ new.updateInfo.checkComplete
    THEN CheckDockerEnter(cur, ts, "none", DockerClosure(new))
    ELSE [app |-> cur, tasks |-> ts, entered |-> FALSE]

\* Second effect, dependencies [isApiReady, checkComplete, hasUpdate].
DockerEffect(old, new, cur, ts) ==
    IF /\ DockerEffectDeps(old) # DockerEffectDeps(new)
       /\ new.updateInfo.checkComplete
       /\ ~new.updateInfo.hasUpdate
    THEN CheckDockerEnter(cur, ts, "none", DockerClosure(new))
    ELSE [app |-> cur, tasks |-> ts, entered |-> FALSE]

\* A DockerInstallPrompt that is unmounted loses its state, and the
\* handleCheckAgain invocations of it can no longer change a later instance.
Detach(ts) ==
    [i \in DOMAIN ts |->
        IF ts[i].awaitedBy = "checkAgain" THEN [ts[i] EXCEPT !.awaitedBy = "none"]
        ELSE ts[i]]

\* The state updates of a step, the render and its effects.
Commit(na, nt, lca) ==
    LET e1 == UpdateEffect(app, na, nt)
        e2 == DockerEffect(app, na, e1.app, e1.tasks)
        mounted == Screen(e2.app) = "DockerInstallPrompt"
    IN  /\ app' = e2.app
        /\ tasks' = Norm(IF mounted THEN e2.tasks ELSE Detach(e2.tasks))
        /\ loadingCheckAgain' = (mounted /\ lca)

\* The wrapper that awaited the invocation t (handleCheckAgain) resumes.
AfterReturn(t) == IF t.awaitedBy = "checkAgain" THEN FALSE ELSE loadingCheckAgain

Room == Len(tasks) < MaxTasks

\* --------------------------------------------------------------------------
\* Configuration form: validation (components/ConfigScreen.tsx)
\* --------------------------------------------------------------------------
\* A text typed into the port field is a sequence of one-character strings.
RESERVED_PORTS == {5432, 8443, 8446, 8089, 8444}

InstallDirRequiredMsg == "Install directory is required."
PortMinMsg == "Port must be a number greater than or equal to 1024."
PortRangeMsg == "Port must be a number between 1024 and 49151."
PortReservedMsg == "The following ports are reserved: 5432, 8443, 8446, 8089, 8444"
PortCheckErrorMsg == "Error checking port availability"
PortInUseMsg == "message of the port check: port in use"
PortFreeMsg == "message of the port check: port available"

Digits == {"0", "1", "2", "3", "4", "5", "6", "7", "8", "9"}

DigitVal(c) ==
    CASE c = "0" -> 0 [] c = "1" -> 1 [] c = "2" -> 2 [] c = "3" -> 3
      [] c = "4" -> 4 [] c = "5" -> 5 [] c = "6" -> 6 [] c = "7" -> 7
      [] c = "8" -> 8 [] c = "9" -> 9

NaN == [nan |-> TRUE, val |-> 0]

RECURSIVE SkipSpace(_)
SkipSpace(s) ==
    IF s # <<>> /\ Head(s) = " " THEN SkipSpace(Tail(s)) ELSE s

RECURSIVE LeadingDigits(_)
LeadingDigits(s) ==
    IF s # <<>> /\ Head(s) \in Digits THEN <<Head(s)>> \o LeadingDigits(Tail(s))
    ELSE <<>>

RECURSIVE Decimal(_, _)
Decimal(ds, acc) ==
    IF ds = <<>> THEN acc ELSE Decimal(Tail(ds), acc * 10 + DigitVal(Head(ds)))

\* parseInt(value, 10): leading blanks skipped, an optional sign, then the
\* longest run of digits; what follows the digits is ignored; NaN without a
\* digit.
parseInt(s) ==
    LET t == SkipSpace(s)
        signed == t # <<>> /\ Head(t) \in {"+", "-"}
        ds == LeadingDigits(IF signed THEN Tail(t) ELSE t)
    IN  IF ds = <<>> THEN NaN
        ELSE [nan |-> FALSE,
              val |-> IF signed /\ Head(t) = "-" THEN 0 - Decimal(ds, 0)
                      ELSE Decimal(ds, 0)]

\* formSchema.installDir: the message shown, Null when the value passes.
InstallDirIssue(d) == IF d = "" THEN InstallDirRequiredMsg ELSE Null

\* Variant: a port schema without the reserved-ports refinement.
PortIssue_noReserved(p) ==
    LET n == parseInt(p)
    IN  IF Len(p) < 1 THEN PortMinMsg
        ELSE IF ~(~n.nan /\ n.val >= 1024 /\ n.val <= 49151) THEN PortRangeMsg
        ELSE Null

\* formSchema.port: the first message of min(1) and the two refinements, Null
\* when the value passes.
PortIssue(p) ==
    LET n == parseInt(p)
    IN  IF Len(p) < 1 THEN PortMinMsg
        ELSE IF ~(~n.nan /\ n.val >= 1024 /\ n.val <= 49151) THEN PortRangeMsg
        ELSE IF ~n.nan /\ n.val \in RESERVED_PORTS THEN PortReservedMsg
        ELSE Null

\* useState<{ available, message } | null>(null): known is FALSE for null.
\* port is history: the port number the answer was given for.
NoAnswer == [known |-> FALSE, available |-> FALSE, message |-> "", port |-> 0]

\* useForm defaultValues, portAvailability = null, nothing pending.
\* errors: the field messages left by the last submission.
\* checks: port numbers of the checkPortAvailability calls started by onChange
\* and not yet returned; submits: values of onSubmit invocations awaiting their
\* own availability call; saved: history, the values onSaveConfig was called with; refused:
\* history, the port number of the latest answer other than "available",
\* emptied by a later "available" for that number.
InitialForm ==
    [installDir |-> "",
     port |-> <<>>,
     portAvailability |-> NoAnswer,
     errors |-> [installDir |-> Null, port |-> Null],
     checks |-> <<>>,
     submits |-> <<>>,
     saved |-> {},
     refused |-> <<>>]

\* --------------------------------------------------------------------------
\* Initial state
\* --------------------------------------------------------------------------
InitialApp ==
    [isDockerInstalled |-> Null,
     isDockerRunning |-> Null,
     error |-> Null,
     isApiReady |-> FALSE,
     isInitialLoad |-> TRUE,
     updateInfo |-> [hasUpdate |-> FALSE, currentVersion |-> "",
                     latestVersion |-> "", checkComplete |-> FALSE],
     updateCheckRetries |-> 0,
     dockerCheckAttempts |-> 0]

\* App is mounted, its cleanup registered (third effect) and not yet run.
InitialCleanup == [mounted |-> TRUE, stopCalls |-> 0, stop |-> "none"]

Init ==
    /\ bridge \in BOOLEAN
    /\ app = InitialApp
    /\ tasks = <<>>
    /\ loadingCheckAgain = FALSE
    /\ store \in StoreValues
    /\ navigated = Null
    /\ updateCalls = 0
    /\ form = InitialForm
    /\ cleanup = InitialCleanup

\* --------------------------------------------------------------------------
\* Host bridge
\* --------------------------------------------------------------------------
\* The host injects window.pywebview.
BridgeAppears ==
    /\ ~bridge
    /\ bridge' = TRUE
    /\ UNCHANGED <<cleanup, form, app, tasks, loadingCheckAgain, store, navigated,
                   updateCalls>>

\* checkApi (polled every 100 ms) finds the bridge.
checkApi ==
    /\ bridge
    /\ ~app.isApiReady
    /\ Commit([app EXCEPT !.isApiReady = TRUE], tasks, loadingCheckAgain)
    /\ UNCHANGED <<cleanup, form, bridge, store, navigated, updateCalls>>

\* --------------------------------------------------------------------------
\* checkForUpdates
\* --------------------------------------------------------------------------
UnknownUpdateInfo ==
    [hasUpdate |-> FALSE, currentVersion |-> "Unknown",
     latestVersion |-> "Unknown", checkComplete |-> TRUE]

\* Variant: the update service is called whatever the probe answered.
ProbeReturns_ignoresProbe(i, isConnected) ==
    /\ tasks[i].fn = "checkForUpdates" /\ tasks[i].pc = "probe"
    /\ Commit(app, Replace(tasks, i, [tasks[i] EXCEPT !.pc = "update"]),
              loadingCheckAgain)
    /\ updateCalls' = updateCalls + 1
    /\ UNCHANGED <<cleanup, form, bridge, store, navigated>>

\* The first api.checkNetwork() of an invocation returns.
ProbeReturns(i, isConnected) ==
    /\ tasks[i].fn = "checkForUpdates" /\ tasks[i].pc = "probe"
    /\ IF ~isConnected
       THEN /\ Commit([app EXCEPT !.updateInfo = UnknownUpdateInfo],
                      Remove(tasks, i), loadingCheckAgain)
            /\ UNCHANGED updateCalls
       ELSE /\ Commit(app, Replace(tasks, i, [tasks[i] EXCEPT !.pc = "update"]),
                      loadingCheckAgain)
            /\ updateCalls' = updateCalls + 1
    /\ UNCHANGED <<cleanup, form, bridge, store, navigated>>

\* Variant: the test of line 93 read from the current state, not the closure.
UpdateRetryAllowed_live(t) == UpdateRetryAllowedIn(app)

\* The catch branch retries only while this holds.
UpdateRetryAllowed(t) == t.cUpdateRetry

\* api.checkForUpdate() returns: "none" / "update" are answers without an
\* error field, "error" is an answer with one or a thrown call.
UpdateResults == {"none", "update", "error"}

UpdateReturns(i, r) ==
    /\ tasks[i].fn = "checkForUpdates" /\ tasks[i].pc = "update"
    /\ IF r # "error"
       THEN Commit([app EXCEPT !.updateInfo =
                        [hasUpdate |-> (r = "update"), currentVersion |-> "current",
                         latestVersion |-> "latest", checkComplete |-> TRUE]],
                   Remove(tasks, i), loadingCheckAgain)
       ELSE IF UpdateRetryAllowed(tasks[i])
       THEN Commit(app, Replace(tasks, i, [tasks[i] EXCEPT !.pc = "reprobe"]),
                   loadingCheckAgain)
       ELSE Commit([app EXCEPT !.updateInfo.hasUpdate = FALSE,
                               !.updateInfo.checkComplete = TRUE],
                   Remove(tasks, i), loadingCheckAgain)
    /\ UNCHANGED <<cleanup, form, bridge, store, navigated, updateCalls>>

\* Variant: the catch branch retries without looking at the re-probe.
ReprobeReturns_ignoresProbe(cap, i, isConnected) ==
    /\ tasks[i].fn = "checkForUpdates" /\ tasks[i].pc = "reprobe"
    /\ app.updateCheckRetries < cap
    /\ Commit([app EXCEPT !.updateCheckRetries = @ + 1],
              Replace(tasks, i, [tasks[i] EXCEPT !.pc = "timer"]),
              loadingCheckAgain)
    /\ UNCHANGED <<cleanup, form, bridge, store, navigated, updateCalls>>

\* The api.checkNetwork() of the catch branch returns.
ReprobeReturns(cap, i, isConnected) ==
    /\ tasks[i].fn = "checkForUpdates" /\ tasks[i].pc = "reprobe"
    /\ IF isConnected
       THEN /\ app.updateCheckRetries < cap
            /\ Commit([app EXCEPT !.updateCheckRetries = @ + 1],
                      Replace(tasks, i, [tasks[i] EXCEPT !.pc = "timer"]),
                      loadingCheckAgain)
       ELSE Commit([app EXCEPT !.updateInfo = UnknownUpdateInfo],
                   Remove(tasks, i), loadingCheckAgain)
    /\ UNCHANGED <<cleanup, form, bridge, store, navigated, updateCalls>>

\* The 2000 ms timer fires and calls the checkForUpdates that armed it.
UpdateTimerFires(i) ==
    /\ tasks[i].fn = "checkForUpdates" /\ tasks[i].pc = "timer"
    /\ Commit(app, Replace(tasks, i, [tasks[i] EXCEPT !.pc = "probe"]),
              loadingCheckAgain)
    /\ UNCHANGED <<cleanup, form, bridge, store, navigated, updateCalls>>

\* --------------------------------------------------------------------------
\* checkDocker
\* --------------------------------------------------------------------------
CallResults == {"true", "false", "throw"}

\* api.checkDockerInstalled() returns.
InstalledReturns(i, r) ==
    /\ tasks[i].fn = "checkDocker" /\ tasks[i].pc = "installed"
    /\ IF r = "throw"
       THEN Commit([app EXCEPT !.error = ThrownMsg], Remove(tasks, i),
                   AfterReturn(tasks[i]))
       ELSE IF r = "false"
       THEN Commit([app EXCEPT !.isDockerInstalled = "false"], Remove(tasks, i),
                   AfterReturn(tasks[i]))
       ELSE Commit([app EXCEPT !.isDockerInstalled = "true"],
                   Replace(tasks, i, [tasks[i] EXCEPT !.pc = "running"]),
                   loadingCheckAgain)
    /\ UNCHANGED <<cleanup, form, bridge, store, navigated, updateCalls>>

\* The not-running branch retries only while this holds.
DockerRetryAllowed(t) == t.cDockerRetry

\* Variant: a running Docker does not reset the attempts counter.
RunningReturns_keepsAttempts(i, r) ==
    /\ tasks[i].fn = "checkDocker" /\ tasks[i].pc = "running"
    /\ IF r = "throw"
       THEN /\ Commit([app EXCEPT !.error = ThrownMsg], Remove(tasks, i),
                      AfterReturn(tasks[i]))
       ELSE IF r = "true"
       THEN /\ Commit([app EXCEPT !.isDockerRunning = "true"],
                      Replace(tasks, i, [tasks[i] EXCEPT !.pc = "getConfig"]),
                      loadingCheckAgain)
       ELSE IF DockerRetryAllowed(tasks[i])
       THEN /\ app.dockerCheckAttempts < MaxAttempts
            /\ Commit([app EXCEPT !.isDockerRunning = "false",
                                  !.dockerCheckAttempts = @ + 1],
                      Replace(tasks, i, [tasks[i] EXCEPT !.pc = "timer",
                                                         !.awaitedBy = "none"]),
                      AfterReturn(tasks[i]))
       ELSE /\ Commit([app EXCEPT !.isDockerRunning = "false",
                                  !.error = DockerNotRunningMsg],
                      Remove(tasks, i), AfterReturn(tasks[i]))
    /\ UNCHANGED <<cleanup, form, bridge, store, navigated, updateCalls>>

\* api.checkDockerRunning() returns.
RunningReturns(i, r) ==
    /\ tasks[i].fn = "checkDocker" /\ tasks[i].pc = "running"
    /\ IF r = "throw"
       THEN /\ Commit([app EXCEPT !.error = ThrownMsg], Remove(tasks, i),
                      AfterReturn(tasks[i]))
       ELSE IF r = "true"
       THEN /\ Commit([app EXCEPT !.isDockerRunning = "true",
                                  !.dockerCheckAttempts = 0],
                      Replace(tasks, i, [tasks[i] EXCEPT !.pc = "getConfig"]),
                      loadingCheckAgain)
       ELSE IF DockerRetryAllowed(tasks[i])
       THEN /\ app.dockerCheckAttempts < MaxAttempts
            /\ Commit([app EXCEPT !.isDockerRunning = "false",
                                  !.dockerCheckAttempts = @ + 1],
                      Replace(tasks, i, [tasks[i] EXCEPT !.pc = "timer",
                                                         !.awaitedBy = "none"]),
                      AfterReturn(tasks[i]))
       ELSE /\ Commit([app EXCEPT !.isDockerRunning = "false",
                                  !.error = DockerNotRunningMsg],
                      Remove(tasks, i), AfterReturn(tasks[i]))
    /\ UNCHANGED <<cleanup, form, bridge, store, navigated, updateCalls>>

\* config.TAK_SERVER_INSTALL_DIR && config.BACKEND_PORT
ConfigComplete(c) == c \in {"both", "bothBadPort"}

\* Variant: a check cycle that finds the configuration incomplete writes a
\* default one to the store and goes on.
GetConfigReturns_fillsDefaults(i, ok) ==
    /\ tasks[i].fn = "checkDocker" /\ tasks[i].pc = "getConfig"
    /\ IF ~ok
       THEN /\ Commit([app EXCEPT !.error = ThrownMsg], Remove(tasks, i),
                      AfterReturn(tasks[i]))
            /\ UNCHANGED store
       ELSE /\ Commit([app EXCEPT !.isInitialLoad = FALSE],
                      Replace(tasks, i, [tasks[i] EXCEPT !.pc = "start"]),
                      loadingCheckAgain)
            /\ store' = IF ConfigComplete(store) THEN store ELSE "both"
    /\ UNCHANGED <<cleanup, form, bridge, navigated, updateCalls>>

\* api.getConfig() returns what the store holds, or throws.
GetConfigReturns(i, ok) ==
    /\ tasks[i].fn = "checkDocker" /\ tasks[i].pc = "getConfig"
    /\ IF ~ok
       THEN Commit([app EXCEPT !.error = ThrownMsg], Remove(tasks, i),
                   AfterReturn(tasks[i]))
       ELSE IF ConfigComplete(store)
       THEN Commit([app EXCEPT !.isInitialLoad = FALSE],
                   Replace(tasks, i, [tasks[i] EXCEPT !.pc = "start"]),
                   loadingCheckAgain)
       ELSE Commit(app, Remove(tasks, i), AfterReturn(tasks[i]))
    /\ UNCHANGED <<cleanup, form, bridge, store, navigated, updateCalls>>

StartResults ==
    {"okPort", "okOtherPort", "okNoPort", "failError", "failEmptyError",
     "failNoError", "throw"}

\* result.port of a successful answer; "" stands for a missing or empty port.
PortOf(r) ==
    IF r = "okPort" THEN "8989" ELSE IF r = "okOtherPort" THEN "9090" ELSE ""

\* `http://localhost:${result.port}`
Target(port) == "http://localhost:" \o port

\* Variant: a successful answer navigates even without a port.
StartNavigates_anySuccess(r) == r \in {"okPort", "okOtherPort", "okNoPort"}

\* result.success && result.port
StartNavigates(r) == r \in {"okPort", "okOtherPort"} /\ PortOf(r) # ""

\* result.error ?? 'Unknown error occurred while starting container'
StartError(r) ==
    IF r = "failError" THEN ReturnedErrorMsg
    ELSE IF r = "failEmptyError" THEN ""
    ELSE StartFallbackMsg

\* api.startContainer() returns, to checkDocker or to handleSaveConfig.
StartReturns(i, r) ==
    /\ tasks[i].fn \in {"checkDocker", "handleSaveConfig"} /\ tasks[i].pc = "start"
    /\ IF r = "throw"
       THEN /\ Commit([app EXCEPT !.error = ThrownMsg], Remove(tasks, i),
                      AfterReturn(tasks[i]))
            /\ UNCHANGED navigated
       ELSE IF r \in {"failError", "failEmptyError", "failNoError"}
       THEN /\ Commit([app EXCEPT !.error = StartError(r)], Remove(tasks, i),
                      AfterReturn(tasks[i]))
            /\ UNCHANGED navigated
       ELSE /\ Commit(app, Remove(tasks, i), AfterReturn(tasks[i]))
            /\ navigated' = IF StartNavigates(r) THEN Target(PortOf(r))
                            ELSE navigated
    /\ UNCHANGED <<cleanup, form, bridge, store, updateCalls>>

\* Variant: the retry resumes at the running-check, where the previous
\* invocation stopped, instead of calling checkDocker from its start.
DockerTimerFires_resumesRunning(i) ==
    /\ tasks[i].fn = "checkDocker" /\ tasks[i].pc = "timer"
    /\ Commit([app EXCEPT !.error = Null],
              Replace(tasks, i, [tasks[i] EXCEPT !.pc = "running"]),
              loadingCheckAgain)
    /\ UNCHANGED <<cleanup, form, bridge, store, navigated, updateCalls>>

\* The 3000 ms timer fires and calls the checkDocker that armed it.
DockerTimerFires(i) ==
    /\ tasks[i].fn = "checkDocker" /\ tasks[i].pc = "timer"
    /\ LET r == CheckDockerEnter(app, Remove(tasks, i), "none", ClosureOf(tasks[i]))
       IN  Commit(r.app, r.tasks, loadingCheckAgain)
    /\ UNCHANGED <<cleanup, form, bridge, store, navigated, updateCalls>>

\* --------------------------------------------------------------------------
\* User actions
\* --------------------------------------------------------------------------
\* Variant: "Try Again" wired to the whole chain, from checkForUpdates on.
ClickRetry_replaysUpdate ==
    /\ Screen(app) = "ErrorState"
    /\ Room
    /\ Commit([app EXCEPT !.error = Null],
              Append(tasks, Task("checkForUpdates", "probe", "none", UpdateClosure(app))),
              loadingCheckAgain)
    /\ UNCHANGED <<cleanup, form, bridge, store, navigated, updateCalls>>

\* ErrorState "Try Again": onRetry = the checkDocker of the current render.
ClickRetry ==
    /\ Screen(app) = "ErrorState"
    /\ Room
    /\ LET r == CheckDockerEnter(app, tasks, "none", DockerClosure(app))
       IN  Commit(r.app, r.tasks, loadingCheckAgain)
    /\ UNCHANGED <<cleanup, form, bridge, store, navigated, updateCalls>>

\* DockerInstallPrompt "Check Again": handleCheckAgain awaits onCheckAgain.
ClickCheckAgain ==
    /\ Screen(app) = "DockerInstallPrompt"
    /\ ~loadingCheckAgain
    /\ Room
    /\ LET r == CheckDockerEnter(app, tasks, "checkAgain", DockerClosure(app))
       IN  Commit(r.app, r.tasks, r.entered)
    /\ UNCHANGED <<cleanup, form, bridge, store, navigated, updateCalls>>

\* DockerInstallPrompt "Install Docker": handleInstallDocker.
ClickInstall ==
    /\ Screen(app) = "DockerInstallPrompt"
    /\ Room
    /\ app.isApiReady
    /\ Commit(app, Append(tasks, Task("handleInstallDocker", "openUrl", "none", NoClosure)),
              loadingCheckAgain)
    /\ UNCHANGED <<cleanup, form, bridge, store, navigated, updateCalls>>

\* Variant: "Update Now" also dismisses the prompt, as "Skip Update" does.
ClickUpdate_dismisses ==
    /\ Screen(app) = "UpdatePrompt"
    /\ Room
    /\ bridge
    /\ Commit([app EXCEPT !.updateInfo.hasUpdate = FALSE],
              Append(tasks, Task("handleUpdate", "openUrl", "none", NoClosure)),
              loadingCheckAgain)
    /\ UNCHANGED <<cleanup, form, bridge, store, navigated, updateCalls>>

\* UpdatePrompt "Update Now": handleUpdate does not await the call.
ClickUpdate ==
    /\ Screen(app) = "UpdatePrompt"
    /\ Room
    /\ bridge
    /\ Commit(app, Append(tasks, Task("handleUpdate", "openUrl", "none", NoClosure)),
              loadingCheckAgain)
    /\ UNCHANGED <<cleanup, form, bridge, store, navigated, updateCalls>>

\* UpdatePrompt "Skip Update": handleSkipUpdate.
ClickSkip ==
    /\ Screen(app) = "UpdatePrompt"
    /\ Room
    /\ Commit([app EXCEPT !.updateInfo.hasUpdate = FALSE], tasks,
              loadingCheckAgain)
    /\ UNCHANGED <<cleanup, form, bridge, store, navigated, updateCalls>>

OpenUrlResults == {"ok", "fail", "throw"}

\* api.openExternalUrl() returns.
OpenUrlReturns(i, r) ==
    /\ tasks[i].pc = "openUrl"
    /\ IF tasks[i].fn = "handleInstallDocker" /\ r # "ok"
       THEN Commit([app EXCEPT !.error =
                        IF r = "fail" THEN OpenUrlFailedMsg ELSE ThrownMsg],
                   Remove(tasks, i), loadingCheckAgain)
       ELSE Commit(app, Remove(tasks, i), loadingCheckAgain)
    /\ UNCHANGED <<cleanup, form, bridge, store, navigated, updateCalls>>

\* --------------------------------------------------------------------------
\* Configuration form
\* --------------------------------------------------------------------------
\* ConfigScreen onSubmit with values that pass formSchema and no cached
\* availability: awaits api.checkPortAvailability(portNumber).
ClickSubmit ==
    /\ Screen(app) = "ConfigScreen"
    /\ Room
    /\ Commit(app, Append(tasks, Task("onSubmit", "checkPort", "none", NoClosure)),
              loadingCheckAgain)
    /\ UNCHANGED <<cleanup, form, bridge, store, navigated, updateCalls>>

PortResults == {"available", "unavailable", "throw"}

\* The availability check returns; an available port calls onSaveConfig =
\* handleSaveConfig, which runs up to its await of api.saveConfig().
CheckPortReturns(i, r) ==
    /\ tasks[i].fn = "onSubmit" /\ tasks[i].pc = "checkPort"
    /\ IF r = "available" /\ app.isApiReady
       THEN Commit(app, Replace(tasks, i, [tasks[i] EXCEPT !.fn = "handleSaveConfig",
                                                           !.pc = "save"]),
                   loadingCheckAgain)
       ELSE Commit(app, Remove(tasks, i), loadingCheckAgain)
    /\ UNCHANGED <<cleanup, form, bridge, store, navigated, updateCalls>>

SaveResults == {"ok", "failError", "failEmptyError", "failNoError", "throw"}

\* api.saveConfig() returns to handleSaveConfig.
SaveReturns(i, r) ==
    /\ tasks[i].fn = "handleSaveConfig" /\ tasks[i].pc = "save"
    /\ IF r = "ok"
       THEN /\ Commit([app EXCEPT !.isInitialLoad = FALSE],
                      Replace(tasks, i, [tasks[i] EXCEPT !.pc = "start"]),
                      loadingCheckAgain)
            /\ store' = "both"
       ELSE /\ Commit([app EXCEPT !.error =
                          IF r = "failError" THEN ReturnedErrorMsg
                          ELSE IF r = "failEmptyError" THEN ""
                          ELSE IF r = "failNoError" THEN SaveFallbackMsg
                          ELSE ThrownMsg],
                      Remove(tasks, i), loadingCheckAgain)
            /\ UNCHANGED store
    /\ UNCHANGED <<cleanup, form, bridge, navigated, updateCalls>>

\* --------------------------------------------------------------------------
\* Teardown
\* --------------------------------------------------------------------------
\* Variant: the cleanup stops the container only after a hand-off.
Unmount_onlyIfStarted ==
    /\ cleanup.mounted
    /\ navigated # Null
    /\ cleanup' = [mounted |-> FALSE, stopCalls |-> cleanup.stopCalls + 1,
                   stop |-> "pending"]
    /\ app' = InitialApp
    /\ tasks' = <<>>
    /\ loadingCheckAgain' = FALSE
    /\ form' = InitialForm
    /\ UNCHANGED <<bridge, store, navigated, updateCalls>>

\* App is unmounted: React runs the cleanup of the third effect, which calls
\* api.stopContainer(), and discards the state of App and of its children.
\* Invocations still suspended run on with their state updates dropped; they
\* are not followed further.
Unmount ==
    /\ cleanup.mounted
    /\ cleanup' = [mounted |-> FALSE, stopCalls |-> cleanup.stopCalls + 1,
                   stop |-> "pending"]
    /\ app' = InitialApp
    /\ tasks' = <<>>
    /\ loadingCheckAgain' = FALSE
    /\ form' = InitialForm
    /\ UNCHANGED <<bridge, store, navigated, updateCalls>>

StopResults == {"ok", "fail", "throw"}

\* api.stopContainer() returns: the answer is ignored, a rejection goes to
\* .catch(console.error).
StopReturns(r) ==
    /\ cleanup.stop = "pending"
    /\ cleanup' = [cleanup EXCEPT !.stop = IF r = "throw" THEN "logged" ELSE "done"]
    /\ UNCHANGED <<bridge, app, tasks, loadingCheckAgain, store, navigated,
                   updateCalls, form>>

Next ==
    \/ BridgeAppears
    \/ checkApi
    \/ \E i \in DOMAIN tasks, b \in BOOLEAN : ProbeReturns(i, b)
    \/ \E i \in DOMAIN tasks, r \in UpdateResults : UpdateReturns(i, r)
    \/ \E i \in DOMAIN tasks, b \in BOOLEAN : ReprobeReturns(MaxUpdateRetries, i, b)
    \/ \E i \in DOMAIN tasks : UpdateTimerFires(i)
    \/ \E i \in DOMAIN tasks, r \in CallResults : InstalledReturns(i, r)
    \/ \E i \in DOMAIN tasks, r \in CallResults : RunningReturns(i, r)
    \/ \E i \in DOMAIN tasks, ok \in BOOLEAN : GetConfigReturns(i, ok)
    \/ \E i \in DOMAIN tasks, r \in StartResults : StartReturns(i, r)
    \/ \E i \in DOMAIN tasks : DockerTimerFires(i)
    \/ ClickRetry
    \/ ClickCheckAgain
    \/ ClickInstall
    \/ ClickUpdate
    \/ ClickSkip
    \/ \E i \in DOMAIN tasks, r \in OpenUrlResults : OpenUrlReturns(i, r)
    \/ ClickSubmit
    \/ \E i \in DOMAIN tasks, r \in PortResults : CheckPortReturns(i, r)
    \/ \E i \in DOMAIN tasks, r \in SaveResults : SaveReturns(i, r)

Spec == Init /\ [][Next]_vars

\* The update check alone, with room for retries beyond MAX_RETRIES.
UpdateCap == MAX_RETRIES + MaxUpdateRetries

NextUpdate ==
    \/ BridgeAppears
    \/ checkApi
    \/ \E i \in DOMAIN tasks, b \in BOOLEAN : ProbeReturns(i, b)
    \/ \E i \in DOMAIN tasks, r \in UpdateResults : UpdateReturns(i, r)
    \/ \E i \in DOMAIN tasks, b \in BOOLEAN : ReprobeReturns(UpdateCap, i, b)
    \/ \E i \in DOMAIN tasks : UpdateTimerFires(i)
    \/ ClickUpdate
    \/ ClickSkip
    \/ \E i \in DOMAIN tasks, r \in OpenUrlResults : OpenUrlReturns(i, r)

UpdateSpec == Init /\ [][NextUpdate]_vars

\* checkApi re-arms its 100 ms timer until it finds the bridge: it is taken
\* once it stays enabled.
LiveSpec == Spec /\ WF_vars(checkApi)

\* A running-check returns false to an invocation that retries, with the
\* stored counter at MaxAttempts: the same step as in RunningReturns, the
\* counter staying at MaxAttempts, which stands for every larger value (no
\* test distinguishes them, MaxAttempts being above
\* MAX_DOCKER_CHECK_ATTEMPTS).
RunningReturnsAtCap(i) ==
    /\ tasks[i].fn = "checkDocker" /\ tasks[i].pc = "running"
    /\ DockerRetryAllowed(tasks[i])
    /\ app.dockerCheckAttempts = MaxAttempts
    /\ Commit([app EXCEPT !.isDockerRunning = "false"],
              Replace(tasks, i, [tasks[i] EXCEPT !.pc = "timer",
                                                 !.awaitedBy = "none"]),
              AfterReturn(tasks[i]))
    /\ UNCHANGED <<cleanup, form, bridge, store, navigated, updateCalls>>

\* The program left to itself, from its start to the first screen that waits
\* for the user: the bridge appears, every pending call returns and every
\* armed timer fires.  The user's actions are possible only on the screens of
\* Resting, so they are not among these steps; one invocation at most is
\* pending, and the fairness of NextFair makes every call return.
NextFair ==
    \/ BridgeAppears
    \/ checkApi
    \/ \E i \in DOMAIN tasks, b \in BOOLEAN : ProbeReturns(i, b)
    \/ \E i \in DOMAIN tasks, r \in UpdateResults : UpdateReturns(i, r)
    \/ \E i \in DOMAIN tasks, b \in BOOLEAN : ReprobeReturns(MaxUpdateRetries, i, b)
    \/ \E i \in DOMAIN tasks : UpdateTimerFires(i)
    \/ \E i \in DOMAIN tasks, r \in CallResults : InstalledReturns(i, r)
    \/ \E i \in DOMAIN tasks, r \in CallResults : RunningReturns(i, r)
    \/ \E i \in DOMAIN tasks : RunningReturnsAtCap(i)
    \/ \E i \in DOMAIN tasks, ok \in BOOLEAN : GetConfigReturns(i, ok)
    \/ \E i \in DOMAIN tasks, r \in StartResults : StartReturns(i, r)
    \/ \E i \in DOMAIN tasks : DockerTimerFires(i)

FairSpec == Init /\ [][NextFair]_vars /\ WF_vars(NextFair)

\* The program with the unmount of App: the steps of Next while App is
\* mounted, the unmount, and the return of the cleanup's call.
NextTeardown ==
    \/ cleanup.mounted /\ Next
    \/ Unmount
    \/ \E r \in StopResults : StopReturns(r)

TeardownSpec == Init /\ [][NextTeardown]_vars

\* --------------------------------------------------------------------------
\* Configuration form: the mounted ConfigScreen on its own
\* --------------------------------------------------------------------------
InstallDirs == {"", "/opt/tak"}

PortTexts ==
    {<<>>, <<"a", "b", "c">>, <<"5", "4", "3", "2">>, <<"8", "9", "8", "9">>,
     <<"8", "9", "8", "9", "a">>, <<"4", "9", "1", "5", "2">>}

\* App in a state whose render is ConfigScreen: update check answered "no
\* update", Docker installed and running, no complete configuration.
ConfigScreenApp ==
    [InitialApp EXCEPT !.isApiReady = TRUE,
                       !.updateInfo = [hasUpdate |-> FALSE, currentVersion |-> "current",
                                       latestVersion |-> "latest", checkComplete |-> TRUE],
                       !.isDockerInstalled = "true",
                       !.isDockerRunning = "true"]

\* ConfigScreen has just been mounted.
ConfigScreenMounted ==
    /\ bridge = TRUE
    /\ app = ConfigScreenApp
    /\ tasks = <<>>
    /\ loadingCheckAgain = FALSE
    /\ store = "none"
    /\ navigated = Null
    /\ updateCalls = 0
    /\ form = InitialForm
    /\ cleanup = InitialCleanup

\* Availability calls not yet returned.
FormPending == Len(form.checks) + Len(form.submits)

RECURSIVE InsNum(_, _)
InsNum(ns, n) ==
    IF ns = <<>> THEN <<n>>
    ELSE IF n <= Head(ns) THEN <<n>> \o ns
    ELSE <<Head(ns)>> \o InsNum(Tail(ns), n)

\* What api.checkPortAvailability() gave, as checkPortAvailability stores it.
PortAnswer(r, n) ==
    [known |-> TRUE,
     available |-> (r = "available"),
     message |-> IF r = "available" THEN PortFreeMsg
                 ELSE IF r = "unavailable" THEN PortInUseMsg
                 ELSE PortCheckErrorMsg,
     port |-> n]

\* The history after answer r for port number n.
Refused(f, n, r) ==
    IF r # "available" THEN <<n>>
    ELSE IF f.refused = <<n>> THEN <<>>
    ELSE f.refused

\* The install directory field changes (typing, or the directory picker).
InstallDirOnChange(d) ==
    /\ Screen(app) = "ConfigScreen"
    /\ form' = [form EXCEPT !.installDir = d]
    /\ UNCHANGED <<cleanup, bridge, app, tasks, loadingCheckAgain, store,
                   navigated, updateCalls>>

\* The port field changes: field.onChange(e); checkPortAvailability(value).
PortOnChange(p) ==
    /\ Screen(app) = "ConfigScreen"
    /\ parseInt(p).nan \/ FormPending < MaxChecks
    /\ form' = [form EXCEPT !.port = p,
                            !.checks =
                                IF parseInt(p).nan THEN @
                                ELSE InsNum(@, parseInt(p).val)]
    /\ UNCHANGED <<cleanup, bridge, app, tasks, loadingCheckAgain, store,
                   navigated, updateCalls>>

\* The availability call started by onChange returns: setPortAvailability.
checkPortAvailabilityReturns(i, r) ==
    /\ i \in DOMAIN form.checks
    /\ form' = [form EXCEPT !.checks = Remove(@, i),
                            !.portAvailability = PortAnswer(r, form.checks[i]),
                            !.refused = Refused(form, form.checks[i], r)]
    /\ UNCHANGED <<cleanup, bridge, app, tasks, loadingCheckAgain, store,
                   navigated, updateCalls>>

\* portAvailability || await api.checkPortAvailability(portNumber)
UseCached(f) == f.portAvailability.known

\* if (!portCheck.available)
Blocked(portCheck) == ~portCheck.available

\* "Save Configuration": form.handleSubmit(onSubmit) validates the values with
\* formSchema and calls onSubmit only when they pass.
handleSubmit ==
    /\ Screen(app) = "ConfigScreen"
    /\ LET di == InstallDirIssue(form.installDir)
           pi == PortIssue(form.port)
           values == [installDir |-> form.installDir, port |-> form.port]
           submitted == [form EXCEPT !.errors = [installDir |-> di, port |-> pi]]
       IN  IF di # Null \/ pi # Null
           THEN form' = submitted
           ELSE IF UseCached(form)
           THEN IF Blocked(form.portAvailability)
                THEN form' = [submitted EXCEPT
                                 !.errors.port = form.portAvailability.message]
                ELSE form' = [submitted EXCEPT !.saved = @ \cup {values}]
           ELSE /\ FormPending < MaxChecks
                /\ form' = [submitted EXCEPT !.submits = Append(@, values)]
    /\ UNCHANGED <<cleanup, bridge, app, tasks, loadingCheckAgain, store,
                   navigated, updateCalls>>

\* The availability call awaited by onSubmit returns or throws.
onSubmitCheckReturns(i, r) ==
    /\ i \in DOMAIN form.submits
    /\ LET values == form.submits[i]
           n == parseInt(values.port).val
           done == [form EXCEPT !.submits = Remove(@, i),
                                !.refused = Refused(form, n, r)]
       IN  IF r = "throw"
           THEN form' = [done EXCEPT !.errors.port = PortCheckErrorMsg]
           ELSE IF Blocked(PortAnswer(r, n))
           THEN form' = [done EXCEPT !.errors.port = PortAnswer(r, n).message]
           ELSE form' = [done EXCEPT !.saved = @ \cup {values}]
    /\ UNCHANGED <<cleanup, bridge, app, tasks, loadingCheckAgain, store,
                   navigated, updateCalls>>

NextForm ==
    \/ \E d \in InstallDirs : InstallDirOnChange(d)
    \/ \E p \in PortTexts : PortOnChange(p)
    \/ \E i \in DOMAIN form.checks, r \in PortResults :
          checkPortAvailabilityReturns(i, r)
    \/ handleSubmit
    \/ \E i \in DOMAIN form.submits, r \in PortResults : onSubmitCheckReturns(i, r)

FormSpec == ConfigScreenMounted /\ [][NextForm]_vars

\* --------------------------------------------------------------------------
\* Rejected calls
\* --------------------------------------------------------------------------
\* A call of task i throws (api.checkNetwork() catches its own failures and
\* never throws; api.checkForUpdate() throwing and answering with an error
\* field take the same path).
Rejects(i) ==
    \/ UpdateReturns(i, "error")
    \/ InstalledReturns(i, "throw")
    \/ RunningReturns(i, "throw")
    \/ GetConfigReturns(i, FALSE)
    \/ StartReturns(i, "throw")
    \/ OpenUrlReturns(i, "throw")
    \/ CheckPortReturns(i, "throw")
    \/ SaveReturns(i, "throw")

\* The function fn awaits its calls inside a try block with a catch clause.
\* handleUpdate calls api.openExternalUrl() without await, try or .catch():
\* a rejection of that promise is handled nowhere.
Catches(fn) == fn # "handleUpdate"

\* --------------------------------------------------------------------------
\* Properties
\* --------------------------------------------------------------------------
Pending(fn, pc) ==
    Cardinality({i \in DOMAIN tasks : tasks[i].fn = fn /\ tasks[i].pc = pc})

Invocations(fn) == Cardinality({i \in DOMAIN tasks : tasks[i].fn = fn})

DockerTimers == Pending("checkDocker", "timer")
UpdateTimers == Pending("checkForUpdates", "timer")
StartOutstanding ==
    Cardinality({i \in DOMAIN tasks : tasks[i].pc = "start"})

\* C1: when a running-check returns false, a retry is scheduled (one more
\* timer, the counter incremented) if the stored dockerCheckAttempts is below
\* MAX_DOCKER_CHECK_ATTEMPTS; at the bound the error is set to the fixed
\* message and no timer is scheduled.
C1_RetryBelowBoundFailedAtBound ==
    [][(\E i \in DOMAIN tasks : RunningReturns(i, "false")) =>
          IF app.dockerCheckAttempts < MAX_DOCKER_CHECK_ATTEMPTS
          THEN /\ DockerTimers' = DockerTimers + 1
               /\ app'.dockerCheckAttempts = app.dockerCheckAttempts + 1
          ELSE /\ DockerTimers' = DockerTimers
               /\ app'.error = DockerNotRunningMsg]_vars

\* C2: the Docker wait loop stops after MAX_DOCKER_CHECK_ATTEMPTS retries: a
\* retry timer is never pending once the counter has passed the bound.
C2_PollingStopsAtBound ==
    DockerTimers > 0 => app.dockerCheckAttempts <= MAX_DOCKER_CHECK_ATTEMPTS

\* C3: the Update Service is called at most MAX_RETRIES times in one bootstrap.
C3_UpdateCallsAtMostMaxRetries == updateCalls <= MAX_RETRIES

C5_UpdateRetriesWithinBound == app.updateCheckRetries \in 0..MAX_RETRIES

\* C6: dockerCheckAttempts stays within 0..MAX_DOCKER_CHECK_ATTEMPTS.
C6_DockerAttemptsWithinBound ==
    app.dockerCheckAttempts \in 0..MAX_DOCKER_CHECK_ATTEMPTS

\* C7: at most one checkDocker and at most one checkForUpdates invocation is
\* awaiting a call or a timer.
C7_OneCycleInFlight ==
    /\ Invocations("checkDocker") <= 1
    /\ Invocations("checkForUpdates") <= 1

\* C8: at most one api.startContainer() call is outstanding.
C8_OneStartOutstanding == StartOutstanding <= 1

\* C9: after the hand-off (navigate was called) api.startContainer() is not
\* called again.
C9_NoStartAfterHandOff ==
    [][navigated # Null => StartOutstanding' <= StartOutstanding]_vars

\* C10: "Try Again" on the error screen clears the error and calls the
\* installed-check; once the update check is complete no checkForUpdates
\* invocation exists (no Network Probe call) and api.checkForUpdate() is not
\* called again.
C10_RetryReentersCheckingDocker ==
    [][/\ ClickRetry =>
            /\ Pending("checkDocker", "installed")' =
                   Pending("checkDocker", "installed") + 1
            /\ app'.error = Null
       /\ app.updateInfo.checkComplete =>
            /\ Invocations("checkForUpdates")' = 0
            /\ updateCalls' = updateCalls]_vars

\* C10 witness: a retry pressed on the error screen after the Docker attempts
\* were used up is at its installed-check, the error cleared.
C10_Witness ==
    /\ app.updateInfo.checkComplete
    /\ app.error = Null
    /\ app.isDockerInstalled = "true"
    /\ app.isDockerRunning = "false"
    /\ app.dockerCheckAttempts >= MAX_DOCKER_CHECK_ATTEMPTS
    /\ \E i \in DOMAIN tasks :
          /\ tasks[i].fn = "checkDocker" /\ tasks[i].pc = "installed"
          /\ ~tasks[i].cDockerRetry

\* C11: on the error screen for a container start failure or for Docker not
\* running at the attempt bound, no checkDocker retry timer is pending and no
\* checkDocker invocation is awaiting a collaborator.
C11_NoAutoRetryInFailed ==
    (Screen(app) = "ErrorState" /\ app.error \in {DockerNotRunningMsg, StartFallbackMsg})
        => (DockerTimers = 0 /\ Invocations("checkDocker") = 0)

\* C12: a checkDocker invocation exists only when the update check is complete
\* and hasUpdate is false, and hasUpdate is cleared by "Skip Update" alone.
C12_DockerCheckAfterUpdateDecision ==
    [][/\ Invocations("checkDocker")' > 0 =>
            (app'.updateInfo.checkComplete /\ ~app'.updateInfo.hasUpdate)
       /\ (app.updateInfo.hasUpdate /\ ~app'.updateInfo.hasUpdate) => ClickSkip]_vars

\* C12 witness: on the update prompt, "Update Now" was pressed and no
\* checkDocker invocation exists.
C12_Witness ==
    /\ Screen(app) = "UpdatePrompt"
    /\ app.updateInfo.hasUpdate
    /\ Pending("handleUpdate", "openUrl") = 1
    /\ Invocations("checkDocker") = 0

\* C13: when the network probe that opens an update check reports no
\* connectivity, api.checkForUpdate() is not called, the versions become
\* "Unknown" with hasUpdate false, the update check ends and checkDocker is
\* at its installed-check; with "Unknown" versions recorded the update
\* service is not called afterwards.
C13_NoConnectivitySkipsUpdateCheck ==
    [][/\ (\E i \in DOMAIN tasks : ProbeReturns(i, FALSE)) =>
            /\ updateCalls' = updateCalls
            /\ app'.updateInfo = UnknownUpdateInfo
            /\ Invocations("checkForUpdates")' = 0
            /\ Pending("checkDocker", "installed")' = 1
       /\ app.updateInfo = UnknownUpdateInfo => updateCalls' = updateCalls]_vars

\* C13 witness: the first probe reported no connectivity.
C13_Witness ==
    /\ app.updateInfo = UnknownUpdateInfo
    /\ updateCalls = 0
    /\ Pending("checkDocker", "installed") = 1

\* C14: navigate is called only when an api.startContainer() call returns
\* success with a port, and its target is http://localhost:<that port>; a
\* checkDocker whose start returns port "8989" navigates to
\* http://localhost:8989.
C14_HandOffToReturnedPort ==
    [][/\ navigated' # navigated =>
            \E i \in DOMAIN tasks, r \in {"okPort", "okOtherPort"} :
                /\ StartReturns(i, r)
                /\ navigated' = "http://localhost:" \o PortOf(r)
       /\ (\E i \in DOMAIN tasks :
              tasks[i].fn = "checkDocker" /\ StartReturns(i, "okPort")) =>
            navigated' = "http://localhost:8989"]_vars

\* C14 witness: with a complete stored configuration the start of checkDocker
\* returned port "8989" and the hand-off was made.
C14_Witness ==
    /\ navigated = "http://localhost:8989"
    /\ store = "both"
    /\ app.isDockerInstalled = "true" /\ app.isDockerRunning = "true"
    /\ ~app.isInitialLoad
    /\ tasks = <<>>

\* C16: when api.getConfig() returns a configuration that lacks the install
\* directory or the port, api.startContainer() is not called, the check ends
\* and the configuration form is rendered.
C16_IncompleteConfigAwaitsForm ==
    [][(~ConfigComplete(store) /\ \E i \in DOMAIN tasks : GetConfigReturns(i, TRUE)) =>
          /\ StartOutstanding' = StartOutstanding
          /\ Invocations("checkDocker")' = Invocations("checkDocker") - 1
          /\ Screen(app') = "ConfigScreen"]_vars

\* C15: every api.startContainer() call follows either an api.getConfig()
\* that returned both fields with a valid port, or an api.saveConfig() that
\* returned success.
C15_StartOnlyAfterValidatedConfig ==
    [][StartOutstanding' > StartOutstanding =>
          \/ store = "both" /\ \E i \in DOMAIN tasks : GetConfigReturns(i, TRUE)
          \/ \E i \in DOMAIN tasks : SaveReturns(i, "ok")]_vars

\* The values v satisfy what the form is to enforce: a non-empty install
\* directory and a port number within 1024..49151 that is not reserved.
Acceptable(v) ==
    /\ v.installDir # ""
    /\ LET n == parseInt(v.port)
       IN  /\ ~n.nan
           /\ n.val >= 1024 /\ n.val <= 49151
           /\ n.val \notin {5432, 8443, 8446, 8089, 8444}

SubmittedValues == {form.submits[i] : i \in DOMAIN form.submits}

\* C17: values with an empty install directory, a port number outside
\* 1024..49151 or a reserved port number never reach onSubmit or onSaveConfig;
\* submitting port 5432 leaves the reserved-ports message on the port field and
\* calls nothing.
C17_InvalidValuesRejectedBeforeSave ==
    [][/\ (form'.saved # form.saved \/ form'.submits # form.submits) =>
             \A v \in form.saved' \cup SubmittedValues' : Acceptable(v)
       /\ (form.installDir # "" /\ form.port = <<"5", "4", "3", "2">> /\ handleSubmit) =>
             /\ form'.errors.port = PortReservedMsg
             /\ form'.saved = form.saved
             /\ form'.submits = form.submits]_vars

\* C17 witness: port 5432 was submitted with an install directory and was
\* rejected, after an earlier acceptable submission had been saved.
C17_Witness ==
    /\ form.port = <<"5", "4", "3", "2">>
    /\ form.installDir # ""
    /\ form.errors.port = PortReservedMsg
    /\ form.saved # {}

\* C18: every port text passed to onSaveConfig is a decimal integer (digits
\* only).
C18_NonNumericPortRejected ==
    \A v \in form.saved :
        v.port # <<>> /\ \A i \in DOMAIN v.port : v.port[i] \in Digits

\* C19: when a submission is saved, the availability answer that permitted it
\* is an answer for the submitted port number: the answer of the call awaited
\* by onSubmit, or a stored answer that was given for that port number.
C19_DecidingAnswerIsForSubmittedPort ==
    [][form.saved' # form.saved =>
          \/ \E i \in DOMAIN form.submits : onSubmitCheckReturns(i, "available")
          \/ /\ handleSubmit
             /\ form.portAvailability.port = parseInt(form.port).val]_vars

\* C20: a submission is not saved when the latest availability answer for its
\* port number was not "available"; when the call awaited by onSubmit answers
\* unavailable or throws, nothing is saved and the port field carries the
\* answer's message, resp. the error message.
C20_UnavailablePortBlocksSubmission ==
    [][/\ (handleSubmit /\ form.saved' # form.saved) =>
             form.refused # <<parseInt(form.port).val>>
       /\ \A i \in DOMAIN form.submits :
             /\ onSubmitCheckReturns(i, "unavailable") =>
                   (form'.saved = form.saved /\ form'.errors.port = PortInUseMsg)
             /\ onSubmitCheckReturns(i, "throw") =>
                   (form'.saved = form.saved /\ form'.errors.port = PortCheckErrorMsg)]_vars

\* C21: whenever api.startContainer() answers success=false, to checkDocker
\* or to handleSaveConfig, with an error that is absent, empty or non-empty,
\* the error screen is rendered and the error is the returned one when
\* supplied, else the fixed fallback message.
C21_StartFailureShowsError ==
    [][\A i \in DOMAIN tasks, r \in {"failError", "failEmptyError", "failNoError"} :
          StartReturns(i, r) =>
             /\ Screen(app') = "ErrorState"
             /\ app'.error = (IF r = "failError" THEN ReturnedErrorMsg
                              ELSE IF r = "failEmptyError" THEN ""
                              ELSE StartFallbackMsg)]_vars

\* C24: when api.checkDockerInstalled() returns false, DockerInstallPrompt is
\* rendered and the invocation ends: it makes no further call and arms no
\* timer; "Check Again" starts a checkDocker, whose first call is the
\* installed-check.
C24_NotInstalledShowsInstallPrompt ==
    [][/\ \A i \in DOMAIN tasks :
             InstalledReturns(i, "false") =>
                /\ Screen(app') = "DockerInstallPrompt"
                /\ Invocations("checkDocker")' = Invocations("checkDocker") - 1
                /\ Pending("checkDocker", "running")' = Pending("checkDocker", "running")
                /\ Pending("checkDocker", "getConfig")' = Pending("checkDocker", "getConfig")
                /\ StartOutstanding' = StartOutstanding
                /\ DockerTimers' = DockerTimers
       /\ ClickCheckAgain =>
             Pending("checkDocker", "installed")' = Pending("checkDocker", "installed") + 1]_vars

\* C25: "Install Docker" on DockerInstallPrompt opens the install URL and
\* changes nothing else: neither the click nor any answer of
\* api.openExternalUrl() to handleInstallDocker changes the screen, the error
\* or the two counters.
C25_InstallLeavesStateUnchanged ==
    [][(\/ ClickInstall
        \/ \E i \in DOMAIN tasks, r \in OpenUrlResults :
              /\ tasks[i].fn = "handleInstallDocker"
              /\ Screen(app) = "DockerInstallPrompt"
              /\ OpenUrlReturns(i, r)) =>
          /\ Screen(app') = "DockerInstallPrompt"
          /\ app'.error = app.error
          /\ app'.dockerCheckAttempts = app.dockerCheckAttempts
          /\ app'.updateCheckRetries = app.updateCheckRetries]_vars

\* C26: "Update Now" on UpdatePrompt opens the release page and changes
\* nothing else: the click and every answer of api.openExternalUrl() to
\* handleUpdate leave the whole App state (hasUpdate, the counters, the error)
\* unchanged and start no checkDocker; after the click UpdatePrompt is still
\* rendered.
C26_UpdateStaysOnUpdatePrompt ==
    [][/\ ClickUpdate =>
             /\ app' = app
             /\ Screen(app') = "UpdatePrompt" /\ app'.updateInfo.hasUpdate
             /\ Pending("handleUpdate", "openUrl")' = Pending("handleUpdate", "openUrl") + 1
             /\ Invocations("checkDocker")' = Invocations("checkDocker")
       /\ \A i \in DOMAIN tasks, r \in OpenUrlResults :
             (tasks[i].fn = "handleUpdate" /\ OpenUrlReturns(i, r)) =>
                /\ app' = app
                /\ Invocations("checkDocker")' = Invocations("checkDocker")]_vars

\* C26 witness: "Update Now" was pressed, the release page is being opened and
\* UpdatePrompt is still rendered with no checkDocker started.
C26_Witness ==
    /\ Screen(app) = "UpdatePrompt"
    /\ app.updateInfo.hasUpdate
    /\ Pending("handleUpdate", "openUrl") = 1
    /\ Invocations("checkDocker") = 0

\* C27: while isApiReady is false no collaborator call is pending and none is
\* issued; isApiReady becomes true only with the bridge present and stays
\* true; the step that sets it starts one checkForUpdates and no other step
\* ever starts one; once the bridge is present, isApiReady eventually becomes
\* true.
C27_NothingBeforeBridgeReady ==
    /\ [](~app.isApiReady => tasks = <<>>)
    /\ [](app.isApiReady => bridge)
    /\ [][/\ app.isApiReady => app'.isApiReady
          /\ checkApi =>
                /\ Invocations("checkForUpdates")' = 1
                /\ Pending("checkForUpdates", "probe")' = 1
          /\ Invocations("checkForUpdates")' > Invocations("checkForUpdates") =>
                checkApi]_vars
    /\ (bridge ~> app.isApiReady)

\* C27 witness: the bridge was found and the one checkForUpdates is awaiting
\* its network probe.
C27_Witness ==
    /\ bridge /\ app.isApiReady
    /\ tasks # <<>>
    /\ \A i \in DOMAIN tasks : tasks[i].fn = "checkForUpdates" /\ tasks[i].pc = "probe"
    /\ updateCalls = 0

\* C28: within checkDocker the calls follow one another: a running-check is
\* issued only by an installed-check returning true, a getConfig only by a
\* running-check returning true, a start of checkDocker only by a getConfig
\* returning, each in the same invocation; a retry timer calls checkDocker
\* from its start (the installed-check) and starts no checkForUpdates and no
\* update-service call.
C28_StagesAreSequential ==
    [][/\ Pending("checkDocker", "running")' > Pending("checkDocker", "running") =>
             /\ \E i \in DOMAIN tasks : InstalledReturns(i, "true")
             /\ Pending("checkDocker", "running")' = Pending("checkDocker", "running") + 1
             /\ Pending("checkDocker", "installed")' = Pending("checkDocker", "installed") - 1
       /\ Pending("checkDocker", "getConfig")' > Pending("checkDocker", "getConfig") =>
             /\ \E i \in DOMAIN tasks : RunningReturns(i, "true")
             /\ Pending("checkDocker", "getConfig")' = Pending("checkDocker", "getConfig") + 1
             /\ Pending("checkDocker", "running")' = Pending("checkDocker", "running") - 1
       /\ Pending("checkDocker", "start")' > Pending("checkDocker", "start") =>
             /\ \E i \in DOMAIN tasks : GetConfigReturns(i, TRUE)
             /\ Pending("checkDocker", "start")' = Pending("checkDocker", "start") + 1
             /\ Pending("checkDocker", "getConfig")' = Pending("checkDocker", "getConfig") - 1
       /\ (\E i \in DOMAIN tasks : DockerTimerFires(i)) =>
             /\ Pending("checkDocker", "installed")' = Pending("checkDocker", "installed") + 1
             /\ DockerTimers' = DockerTimers - 1
             /\ Pending("checkDocker", "running")' = Pending("checkDocker", "running")
             /\ Invocations("checkForUpdates")' = Invocations("checkForUpdates")
             /\ updateCalls' = updateCalls]_vars

\* C28 witness: after a running-check returned false, the retry timer fired
\* and the new invocation is at its installed-check.
C28_Witness ==
    /\ app.dockerCheckAttempts = 1
    /\ app.isDockerRunning = "false"
    /\ Len(tasks) = 1
    /\ app.isDockerInstalled = "true"
    /\ Pending("checkDocker", "installed") = 1
    /\ app.error = Null

\* C29: when api.checkDockerRunning() returns true, dockerCheckAttempts is
\* set to 0, isDockerRunning to true, the invocation goes on to
\* api.getConfig() and no timer is armed.
C29_RunningResetsAttempts ==
    [][\A i \in DOMAIN tasks :
          RunningReturns(i, "true") =>
             /\ app'.dockerCheckAttempts = 0
             /\ app'.isDockerRunning = "true"
             /\ Pending("checkDocker", "getConfig")' = Pending("checkDocker", "getConfig") + 1
             /\ Pending("checkDocker", "running")' = Pending("checkDocker", "running") - 1
             /\ DockerTimers' = DockerTimers
             /\ StartOutstanding' = StartOutstanding]_vars

\* C29 witness: a running-check returned true after another invocation had
\* counted an attempt and armed its timer; the counter is back at 0 and the
\* configuration is being read.
C29_Witness ==
    /\ app.dockerCheckAttempts = 0
    /\ app.isDockerRunning = "true"
    /\ Pending("checkDocker", "getConfig") = 1
    /\ DockerTimers = 1

\* C30: every call of checkDocker - by the second effect, a retry timer,
\* "Check Again" or "Try Again" - passes its guard and sets the error to null
\* before its installed-check: a step that starts an installed-check leaves
\* the error null, each of the three explicit entries starts one, and an
\* error is only ever set by the return of a collaborator call.
C30_ErrorClearedOnEntry ==
    [][/\ Pending("checkDocker", "installed")' > Pending("checkDocker", "installed") =>
             (app'.error = Null /\ Screen(app') # "ErrorState")
       /\ (ClickRetry \/ ClickCheckAgain \/ \E i \in DOMAIN tasks : DockerTimerFires(i)) =>
             Pending("checkDocker", "installed")' = Pending("checkDocker", "installed") + 1
       /\ (app'.error # app.error /\ app'.error # Null) =>
             /\ Len(tasks') <= Len(tasks)
             /\ Pending("checkDocker", "installed")' <= Pending("checkDocker", "installed")]_vars

\* C30 witness: a start failed, "Try Again" was pressed, and the new
\* invocation is at its installed-check with the error cleared.
C30_Witness ==
    /\ ~app.isInitialLoad
    /\ navigated = Null
    /\ app.error = Null
    /\ Len(tasks) = 1
    /\ Pending("checkDocker", "installed") = 1

\* C22: every thrown or rejected collaborator call is caught by the function
\* that made it.
C22_NoUncaughtFailure ==
    [][\A i \in DOMAIN tasks : Rejects(i) => Catches(tasks[i].fn)]_vars

\* C23: api.stopContainer() is called exactly once when App is unmounted,
\* whatever state App is in (the unmount and its call are possible in every
\* state in which App is mounted, before the bridge is found and with no
\* container started included) and never otherwise; the return of the call
\* changes nothing but the cleanup's own record, and a rejection is logged.
C23_StopOnceOnUnmount ==
    /\ [](cleanup.stopCalls = (IF cleanup.mounted THEN 0 ELSE 1))
    /\ [](cleanup.mounted => ENABLED Unmount)
    /\ [][/\ Unmount =>
                /\ cleanup'.stopCalls = cleanup.stopCalls + 1
                /\ cleanup'.stop = "pending"
          /\ cleanup'.stopCalls # cleanup.stopCalls => Unmount
          /\ \A r \in StopResults :
                StopReturns(r) =>
                   /\ UNCHANGED <<bridge, app, tasks, loadingCheckAgain, store,
                                  navigated, updateCalls, form>>
                   /\ cleanup'.stopCalls = cleanup.stopCalls
                   /\ ~cleanup'.mounted
                   /\ cleanup'.stop = (IF r = "throw" THEN "logged" ELSE "done")]_vars

\* C23 witness: App was unmounted before the bridge was found and with no
\* container started; the one api.stopContainer() call was rejected and the
\* rejection was logged.
C23_Witness ==
    /\ ~cleanup.mounted
    /\ cleanup.stopCalls = 1
    /\ cleanup.stop = "logged"
    /\ ~bridge
    /\ navigated = Null

\* C31: when the re-probe that follows a failed Update Service call at
\* updateCheckRetries < MAX_RETRIES - 1 reports no connectivity, no timer is
\* armed, the counter is unchanged, the Update Service is not called, the
\* versions become "Unknown" with hasUpdate false and checkComplete true, the
\* invocation ends and a checkDocker is started.
C31_OfflineReprobeGivesUp ==
    [][\A i \in DOMAIN tasks :
          (app.updateCheckRetries < MAX_RETRIES - 1
              /\ ReprobeReturns(UpdateCap, i, FALSE)) =>
             /\ UpdateTimers' = UpdateTimers
             /\ app'.updateCheckRetries = app.updateCheckRetries
             /\ updateCalls' = updateCalls
             /\ app'.updateInfo.currentVersion = "Unknown"
             /\ app'.updateInfo.latestVersion = "Unknown"
             /\ ~app'.updateInfo.hasUpdate
             /\ app'.updateInfo.checkComplete
             /\ Invocations("checkForUpdates")' = Invocations("checkForUpdates") - 1
             /\ Pending("checkDocker", "installed")' = 1]_vars

\* C31 witness: the Update Service was called once and failed, the re-probe
\* reported no connectivity, and the Docker check has started.
C31_Witness ==
    /\ updateCalls = 1
    /\ app.updateCheckRetries = 0
    /\ app.updateInfo.currentVersion = "Unknown"
    /\ app.updateInfo.checkComplete
    /\ Invocations("checkForUpdates") = 0
    /\ Pending("checkDocker", "installed") = 1

\* C32: the test of a retry loop uses the stored counter: what a pending
\* checkDocker (resp. checkForUpdates) invocation will compare against the
\* bound is what the stored dockerCheckAttempts (resp. updateCheckRetries)
\* gives.
C32_RetryTestReadsStoredCounter ==
    \A i \in DOMAIN tasks :
        /\ (tasks[i].fn = "checkDocker" /\ tasks[i].pc \in {"installed", "running"}) =>
              DockerRetryAllowed(tasks[i]) = DockerRetryAllowedIn(app)
        /\ (tasks[i].fn = "checkForUpdates" /\ tasks[i].pc \in {"probe", "update"}) =>
              UpdateRetryAllowed(tasks[i]) = UpdateRetryAllowedIn(app)

\* A resting phase: an update is offered, Docker is missing, the
\* configuration form is shown, the hand-off was made, or the error screen is
\* shown.
Resting ==
    \/ Screen(app) \in {"UpdatePrompt", "DockerInstallPrompt", "ConfigScreen",
                        "ErrorState"}
    \/ navigated # Null

\* C33: when the bridge appears and every call returns, a resting phase is
\* eventually reached, whatever the collaborators answer.
C33_BootstrapReachesRestingPhase == <>Resting

\* C34: whenever a start() call returns, the controller leaves the starting
\* screen: either the page is handed over to the manager or the error screen
\* with its retry control is shown, also for a successful answer without a
\* port.  (The answer success=false with an empty error is the case of C21
\* and is left out here.)
C34_StartReturnLeavesStarting ==
    [][\A i \in DOMAIN tasks, r \in StartResults \ {"failEmptyError"} :
          StartReturns(i, r) =>
              (navigated' # Null \/ Screen(app') = "ErrorState")]_vars

\* C35: with the program left to itself from dockerCheckAttempts = 0, a
\* running-check that returns false ends in the docker-not-running error
\* exactly when the stored counter is MAX_DOCKER_CHECK_ATTEMPTS: the first ten
\* false answers each schedule one timer and the eleventh gives up, so the
\* error is entered with the counter at ten and at no other value.
C35_GivesUpExactlyAtBound ==
    [][\A i \in DOMAIN tasks :
          RunningReturns(i, "false") =>
              (app'.error = DockerNotRunningMsg
                  <=> app.dockerCheckAttempts = MAX_DOCKER_CHECK_ATTEMPTS)]_vars

\* C36: "Try Again" on the docker-not-running error leaves dockerCheckAttempts
\* as it is, and the invocation it starts does not retry: a running-check
\* that returns false to it sets the error again and schedules no timer.  The
\* counter goes back to 0 only when a running-check returns true.
C36_RetryFromNotRunningGivesUpAtOnce ==
    [][/\ (ClickRetry /\ app.error = DockerNotRunningMsg) =>
              /\ app'.dockerCheckAttempts = app.dockerCheckAttempts
              /\ ~DockerRetryAllowed(Task("checkDocker", "installed", "none",
                                          DockerClosure(app)))
       /\ \A i \in DOMAIN tasks :
              (RunningReturns(i, "false") /\ ~DockerRetryAllowed(tasks[i])) =>
                  /\ app'.error = DockerNotRunningMsg
                  /\ DockerTimers' = DockerTimers
                  /\ app'.dockerCheckAttempts = app.dockerCheckAttempts
       /\ (app.dockerCheckAttempts # 0 /\ app'.dockerCheckAttempts = 0) =>
              \E i \in DOMAIN tasks : RunningReturns(i, "true")]_vars

\* C37: when api.saveConfig() answers success=false or throws, that
\* submission calls no api.startContainer(), the error is set to the supplied
\* message or to a fixed fallback, and the error screen is shown.
C37_SaveFailureShowsError ==
    [][\A i \in DOMAIN tasks, r \in SaveResults \ {"ok"} :
          SaveReturns(i, r) =>
              /\ StartOutstanding' = StartOutstanding
              /\ Invocations("handleSaveConfig")' = Invocations("handleSaveConfig") - 1
              /\ app'.error # Null
              /\ Screen(app') = "ErrorState"]_vars

====
